---------------------------- MODULE Spec2Model ----------------------------
(***************************************************************************)
(* A model of the wxve-chat client (src/src/main.rs): the SSE client       *)
(* send_message (frame parsing, chunk decoding) and the App component's    *)
(* do_send handler with the on_chunk callback it passes to send_message.   *)
(*                                                                         *)
(* Text is a sequence of Unicode code points, a byte fragment a sequence   *)
(* of numbers 0..255.  Option<T> is a sequence of length at most one.      *)
(***************************************************************************)
EXTENDS Integers, Sequences, FiniteSets, TLC

(***************************************************************************)
(* Bounds of the model.                                                    *)
(***************************************************************************)
\* results the network delivers per behaviour, over all requests: fragments
\* of response bodies and failures (a turn ends only by one of them, so the
\* number of turns is bounded with them)
MaxNet == 3
\* length of the byte stream of the frame-parser specification
MaxWire == 4

(***************************************************************************)
(* Text literals of the source.                                            *)
(***************************************************************************)
DataPrefix == <<100, 97, 116, 97, 58, 32>>                  \* "data: "
ErrorPrefix == <<69, 114, 114, 111, 114, 58, 32>>           \* "Error: "
HttpPrefix == <<72, 84, 84, 80, 32>>                        \* "HTTP "
NoBody == <<110, 111, 32, 98, 111, 100, 121>>               \* "no body"
Separator == <<10, 10>>                                     \* "\n\n"
TagName == <<116, 121, 112, 101>>                           \* "type"
VText == <<116, 101, 120, 116>>                             \* "text"
VToolStart == <<116, 111, 111, 108, 95, 115, 116, 97, 114, 116>> \* "tool_start"
VToolEnd == <<116, 111, 111, 108, 95, 101, 110, 100>>       \* "tool_end"
VChart == <<99, 104, 97, 114, 116>>                         \* "chart"
VDone == <<100, 111, 110, 101>>                             \* "done"
VError == <<101, 114, 114, 111, 114>>                       \* "error"
FContent == <<99, 111, 110, 116, 101, 110, 116>>            \* "content"
FName == <<110, 97, 109, 101>>                              \* "name"
FSymbol == <<115, 121, 109, 98, 111, 108>>                  \* "symbol"
FHtml == <<104, 116, 109, 108>>                             \* "html"
FMessage == <<109, 101, 115, 115, 97, 103, 101>>            \* "message"

(***************************************************************************)
(* String::from_utf8_lossy (line 130): the bytes of ONE fragment decoded   *)
(* to text.  Every maximal ill-formed subsequence, a truncated sequence at *)
(* the end of the fragment included, becomes one U+FFFD.                   *)
(***************************************************************************)
Replacement == <<65533>>

IsCont(b) == b >= 128 /\ b <= 191

\* the range the second byte of a sequence led by b1 must lie in
SecondOk(b1, b2) ==
    CASE b1 = 224 -> b2 >= 160 /\ b2 <= 191
      [] b1 = 237 -> b2 >= 128 /\ b2 <= 159
      [] b1 = 240 -> b2 >= 144 /\ b2 <= 191
      [] b1 = 244 -> b2 >= 128 /\ b2 <= 143
      [] OTHER -> IsCont(b2)

\* number of bytes of the sequence led by b (0: b leads nothing)
Utf8Width(b) ==
    IF b < 128 THEN 1
    ELSE IF b >= 194 /\ b <= 223 THEN 2
    ELSE IF b >= 224 /\ b <= 239 THEN 3
    ELSE IF b >= 240 /\ b <= 244 THEN 4
    ELSE 0

\* [n |-> bytes consumed at position i, out |-> the text they decode to]
DecodeAt(bytes, i) ==
    LET b1 == bytes[i]
        w == Utf8Width(b1)
        has(k) == i + k <= Len(bytes)
    IN  IF w = 1 THEN [n |-> 1, out |-> <<b1>>]
        ELSE IF w = 0 THEN [n |-> 1, out |-> Replacement]
        ELSE IF ~(has(1) /\ SecondOk(b1, bytes[i + 1]))
             THEN [n |-> 1, out |-> Replacement]
        ELSE IF w = 2
             THEN [n |-> 2, out |-> <<(b1 - 192) * 64 + (bytes[i + 1] - 128)>>]
        ELSE IF ~(has(2) /\ IsCont(bytes[i + 2]))
             THEN [n |-> 2, out |-> Replacement]
        ELSE IF w = 3
             THEN [n |-> 3, out |-> <<(b1 - 224) * 4096 + (bytes[i + 1] - 128) * 64
                                       + (bytes[i + 2] - 128)>>]
        ELSE IF ~(has(3) /\ IsCont(bytes[i + 3]))
             THEN [n |-> 3, out |-> Replacement]
        ELSE [n |-> 4, out |-> <<(b1 - 240) * 262144 + (bytes[i + 1] - 128) * 4096
                                  + (bytes[i + 2] - 128) * 64 + (bytes[i + 3] - 128)>>]

RECURSIVE LossyFrom(_, _)
LossyFrom(bytes, i) ==
    IF i > Len(bytes) THEN <<>>
    ELSE LET d == DecodeAt(bytes, i) IN d.out \o LossyFrom(bytes, i + d.n)

from_utf8_lossy(bytes) == LossyFrom(bytes, 1)

(***************************************************************************)
(* The frame parser's text operations (lines 133-137).                     *)
(***************************************************************************)
\* char::is_whitespace, the Unicode White_Space property str::trim uses
WhiteSpace ==
    {9, 10, 11, 12, 13, 32, 133, 160, 5760, 8232, 8233, 8239, 8287, 12288}
        \cup (8192 .. 8202)

\* the first position from i on that holds c (Len(s) + 1: none)
RECURSIVE Find(_, _, _)
Find(s, c, i) == IF i > Len(s) \/ s[i] = c THEN i ELSE Find(s, c, i + 1)

\* buffer.find('\n'): Option<usize>, as a 1-based position
find_newline(s) ==
    LET i == Find(s, 10, 1) IN IF i > Len(s) THEN <<>> ELSE <<i>>

\* the first position from i up, the last from i down, that holds no white space
RECURSIVE TrimStart(_, _)
TrimStart(s, i) ==
    IF i > Len(s) \/ s[i] \notin WhiteSpace THEN i ELSE TrimStart(s, i + 1)

RECURSIVE TrimEnd(_, _)
TrimEnd(s, i) ==
    IF i < 1 \/ s[i] \notin WhiteSpace THEN i ELSE TrimEnd(s, i - 1)

\* str::trim
trim(s) == SubSeq(s, TrimStart(s, 1), TrimEnd(s, Len(s)))

\* str::strip_prefix: Option<&str>
strip_prefix(s, p) ==
    IF Len(s) >= Len(p) /\ SubSeq(s, 1, Len(p)) = p
    THEN <<SubSeq(s, Len(p) + 1, Len(s))>>
    ELSE <<>>

\* lines 134-135: the line before the newline at pos, trimmed, and the rest
split_line(buffer, pos) ==
    [line |-> trim(SubSeq(buffer, 1, pos - 1)),
     rest |-> SubSeq(buffer, pos + 1, Len(buffer))]

(***************************************************************************)
(* serde_json::from_str::<StreamChunk> (line 138, the enum of lines 55-65).*)
(* The JSON reader covers the wire format's shape: one object whose member *)
(* values are strings, with JSON whitespace between tokens and the         *)
(* two-character escapes; every other text is a parse error here (the      *)
(* streams of this model hold no \u escape and no non-string value).       *)
(***************************************************************************)
JsonWs == {32, 9, 10, 13}

Fail == [ok |-> FALSE]

RECURSIVE SkipWs(_, _)
SkipWs(s, i) == IF i <= Len(s) /\ s[i] \in JsonWs THEN SkipWs(s, i + 1) ELSE i

\* the character a two-character escape stands for (<<>>: no such escape)
Unescape(c) ==
    CASE c = 34 -> <<34>>  [] c = 92 -> <<92>>  [] c = 47 -> <<47>>
      [] c = 98 -> <<8>>   [] c = 102 -> <<12>> [] c = 110 -> <<10>>
      [] c = 114 -> <<13>> [] c = 116 -> <<9>>  [] OTHER -> <<>>

\* the rest of a string literal whose opening quote precedes position j
RECURSIVE ScanStr(_, _, _)
ScanStr(s, j, acc) ==
    IF j > Len(s) THEN Fail
    ELSE IF s[j] = 34 THEN [ok |-> TRUE, val |-> acc, next |-> j + 1]
    ELSE IF s[j] = 92
         THEN IF j + 1 > Len(s) \/ Unescape(s[j + 1]) = <<>> THEN Fail
              ELSE ScanStr(s, j + 2, acc \o Unescape(s[j + 1]))
    ELSE IF s[j] < 32 THEN Fail
    ELSE ScanStr(s, j + 1, Append(acc, s[j]))

ParseStr(s, i) ==
    IF i <= Len(s) /\ s[i] = 34 THEN ScanStr(s, i + 1, <<>>) ELSE Fail

\* the members of an object from position i (a key) to its closing brace
RECURSIVE ParseMembers(_, _, _)
ParseMembers(s, i, acc) ==
    LET k == ParseStr(s, i) IN
    IF ~k.ok THEN Fail ELSE
    LET c == SkipWs(s, k.next) IN
    IF c > Len(s) \/ s[c] # 58 THEN Fail ELSE
    LET v == ParseStr(s, SkipWs(s, c + 1)) IN
    IF ~v.ok THEN Fail ELSE
    LET e == SkipWs(s, v.next)
        got == Append(acc, [key |-> k.val, val |-> v.val])
    IN  IF e > Len(s) THEN Fail
        ELSE IF s[e] = 44 THEN ParseMembers(s, SkipWs(s, e + 1), got)
        ELSE IF s[e] = 125 THEN [ok |-> TRUE, members |-> got, next |-> e + 1]
        ELSE Fail

\* a whole text as one object: [ok, members]; trailing characters are an error
ParseObject(s) ==
    LET o == SkipWs(s, 1) IN
    IF o > Len(s) \/ s[o] # 123 THEN Fail ELSE
    LET f == SkipWs(s, o + 1)
        r == IF f <= Len(s) /\ s[f] = 125
             THEN [ok |-> TRUE, members |-> <<>>, next |-> f + 1]
             ELSE ParseMembers(s, f, <<>>)
    IN  IF r.ok /\ SkipWs(s, r.next) > Len(s)
        THEN [ok |-> TRUE, members |-> r.members]
        ELSE Fail

\* the values the members give key
Values(members, key) ==
    LET hit == SelectSeq(members, LAMBDA m : m.key = key)
    IN  [i \in 1 .. Len(hit) |-> hit[i].val]

NoChunk == [type |-> "none"]

\* the internally tagged enum: the tag "type" exactly once, naming a variant;
\* each field of the variant exactly once; other members are ignored.
\* Result<StreamChunk, _> with every Err as NoChunk.
decode(data) ==
    LET p == ParseObject(data) IN
    IF ~p.ok THEN NoChunk ELSE
    LET tag == Values(p.members, TagName)
        rest == SelectSeq(p.members, LAMBDA m : m.key # TagName)
        one(key) == Len(Values(rest, key)) = 1
        get(key) == Values(rest, key)[1]
    IN  IF Len(tag) # 1 THEN NoChunk
        ELSE IF tag[1] = VText /\ one(FContent)
             THEN [type |-> "text", content |-> get(FContent)]
        ELSE IF tag[1] = VToolStart /\ one(FName)
             THEN [type |-> "tool_start", name |-> get(FName)]
        ELSE IF tag[1] = VToolEnd /\ one(FName)
             THEN [type |-> "tool_end", name |-> get(FName)]
        ELSE IF tag[1] = VChart /\ one(FSymbol) /\ one(FHtml)
             THEN [type |-> "chart", symbol |-> get(FSymbol), html |-> get(FHtml)]
        ELSE IF tag[1] = VDone THEN [type |-> "done"]
        ELSE IF tag[1] = VError /\ one(FMessage)
             THEN [type |-> "error", message |-> get(FMessage)]
        ELSE NoChunk

\* faulty variant: a line without the "data: " prefix is decoded as it is
chunk_of_line_any_prefix(line) ==
    LET data == strip_prefix(line, DataPrefix)
    IN  IF data = <<>> THEN decode(line) ELSE decode(data[1])

\* lines 137-138: the chunk a trimmed line carries, NoChunk when it has no
\* "data: " prefix or does not decode
chunk_of_line(line) ==
    LET data == strip_prefix(line, DataPrefix)
    IN  IF data = <<>> THEN NoChunk ELSE decode(data[1])

(***************************************************************************)
(* The signals of App (lines 158-164) as one record, and the handlers that *)
(* write them: the on_chunk closure (lines 209-255), the error branch of   *)
(* the spawned future (lines 258-270) and do_send itself (lines 182-206).  *)
(***************************************************************************)
User == "user"
Assistant == "assistant"

Message(id, role, content, charts) ==
    [id |-> id, role |-> role, content |-> content, charts |-> charts]

\* lines 235-247 and 258-270 push the same message: "Error: " and the reason
error_message(id, reason) == Message(id, Assistant, ErrorPrefix \o reason, <<>>)

\* faulty variant: the Done handler commits without taking a fresh id
on_done_stale_id(S) ==
    [S EXCEPT !.messages = Append(@, Message(S.next_id - 1, Assistant,
                                             S.current_response, S.pending_charts)),
              !.current_response = <<>>,
              !.pending_charts = <<>>,
              !.loading = FALSE]

\* lines 218-234
on_done(S) ==
    [S EXCEPT !.next_id = @ + 1,
              !.messages = Append(@, Message(S.next_id, Assistant,
                                             S.current_response, S.pending_charts)),
              !.current_response = <<>>,
              !.pending_charts = <<>>,
              !.loading = FALSE]

\* faulty variant: the Error handler shows the message without the "Error: " prefix
on_error_bare(S, message) ==
    [S EXCEPT !.next_id = @ + 1,
              !.messages = Append(@, Message(S.next_id, Assistant, message, <<>>)),
              !.loading = FALSE]

\* lines 235-247
on_error(S, message) ==
    [S EXCEPT !.next_id = @ + 1,
              !.messages = Append(@, error_message(S.next_id, message)),
              !.loading = FALSE]

\* faulty variant: the ToolEnd handler only clears the tool, appending no separator
on_tool_end_no_separator(S) == [S EXCEPT !.tool_running = <<>>]

\* lines 251-254
on_tool_end(S) ==
    [S EXCEPT !.tool_running = <<>>,
              !.current_response = @ \o Separator]

\* lines 209-255: the closure handed to send_message
on_chunk(S, chunk) ==
    CASE chunk.type = "text" ->
           [S EXCEPT !.current_response = @ \o chunk.content]
      [] chunk.type = "chart" ->
           [S EXCEPT !.pending_charts =
                Append(@, [symbol |-> chunk.symbol, html |-> chunk.html])]
      [] chunk.type = "done" -> on_done(S)
      [] chunk.type = "error" -> on_error(S, chunk.message)
      [] chunk.type = "tool_start" ->
           [S EXCEPT !.tool_running = <<chunk.name>>]
      [] chunk.type = "tool_end" -> on_tool_end(S)

\* faulty variant: no chunk makes send_message return
is_done_never(chunk) == FALSE

\* line 139: the chunk after which send_message returns (lines 141-143)
is_done(chunk) == chunk.type = "done"

\* faulty variant: at end of data the rest of the buffer is taken as a line
at_end_flushing(S, buffer) ==
    LET chunk == chunk_of_line(trim(buffer))
    IN  IF chunk = NoChunk THEN S ELSE on_chunk(S, chunk)

\* lines 115-122 and 149: at end of data the loop is left and Ok returned;
\* what the buffer still holds is handed to nobody
at_end(S, buffer) == S

\* faulty variant: the error branch shows the reason without "Error: "
on_failure_bare(S, e) ==
    [S EXCEPT !.next_id = @ + 1,
              !.messages = Append(@, Message(S.next_id, Assistant, e, <<>>)),
              !.loading = FALSE]

\* faulty variant: the error branch leaves loading set
on_failure_still_loading(S, e) ==
    [S EXCEPT !.next_id = @ + 1,
              !.messages = Append(@, error_message(S.next_id, e))]

\* lines 258-270: send_message returned Err(e)
on_failure(S, e) ==
    [S EXCEPT !.next_id = @ + 1,
              !.messages = Append(@, error_message(S.next_id, e)),
              !.loading = FALSE]

\* faulty variant: a guard that forgets the loading flag
rejects_ignoring_loading(msg, loading_now) == trim(msg) = <<>>

\* line 184: the submission is dropped
rejects(msg, loading_now) == trim(msg) = <<>> \/ loading_now

\* faulty variant: the history is read after the user message was pushed
history_after_push(S, msg) ==
    Append(S.messages, Message(S.next_id, User, msg, <<>>))

\* line 194: the history of the request, read before the push of line 199
history_of(S, msg) == S.messages

\* faulty variant: the store is replaced by the new user message
accept_fresh_store(S, msg) ==
    [S EXCEPT !.loading = TRUE,
              !.current_response = <<>>,
              !.pending_charts = <<>>,
              !.next_id = @ + 1,
              !.messages = <<Message(S.next_id, User, msg, <<>>)>>]

\* lines 188-206 on the signals other than input
accept(S, msg) ==
    [S EXCEPT !.loading = TRUE,
              !.current_response = <<>>,
              !.pending_charts = <<>>,
              !.next_id = @ + 1,
              !.messages = Append(@, Message(S.next_id, User, msg, <<>>))]

(***************************************************************************)
(* What the user and the server can supply.                                *)
(***************************************************************************)
\* the text of the input box: empty, blank, a message
Inputs == {<<>>, <<32, 9>>, <<104, 105>>}

Frame(json) == DataPrefix \o json \o <<10>>

TextOpen ==
    <<123, 34, 116, 121, 112, 101, 34, 58, 34, 116, 101, 120, 116, 34, 44, 34,
      99, 111, 110, 116, 101, 110, 116, 34, 58, 34>>   \* {"type":"text","content":"
TextJson(c) == TextOpen \o c \o <<34, 125>>
ToolStartJson ==
    <<123, 34, 116, 121, 112, 101, 34, 58, 34, 116, 111, 111, 108, 95, 115, 116,
      97, 114, 116, 34, 44, 34, 110, 97, 109, 101, 34, 58, 34, 116, 34, 125>>
        \* {"type":"tool_start","name":"t"}
ToolEndJson ==
    <<123, 34, 116, 121, 112, 101, 34, 58, 34, 116, 111, 111, 108, 95, 101, 110,
      100, 34, 44, 34, 110, 97, 109, 101, 34, 58, 34, 116, 34, 125>>
        \* {"type":"tool_end","name":"t"}
ChartJson(symbol) ==
    <<123, 34, 116, 121, 112, 101, 34, 58, 34, 99, 104, 97, 114, 116, 34, 44, 34,
      115, 121, 109, 98, 111, 108, 34, 58, 34>> \o symbol
        \o <<34, 44, 34, 104, 116, 109, 108, 34, 58, 34, 60, 112, 62, 34, 125>>
        \* {"type":"chart","symbol":"...","html":"<p>"}
DoneJson ==
    <<123, 34, 116, 121, 112, 101, 34, 58, 34, 100, 111, 110, 101, 34, 125>>
        \* {"type":"done"}
RateLimited == <<114, 97, 116, 101, 32, 108, 105, 109, 105, 116, 101, 100>>
        \* rate limited
ErrorJson ==
    <<123, 34, 116, 121, 112, 101, 34, 58, 34, 101, 114, 114, 111, 114, 34, 44,
      34, 109, 101, 115, 115, 97, 103, 101, 34, 58, 34>> \o RateLimited
        \o <<34, 125>>       \* {"type":"error","message":"rate limited"}

\* the text frame of "é" cut inside the two bytes of its character
SplitHead == DataPrefix \o TextOpen \o <<195>>
SplitTail == <<169, 34, 125, 10>>

\* lines on_chunk never sees: a text chunk without the "data: " prefix, a
\* data line that is not JSON, a data line of a type StreamChunk lacks
BadJson == <<123, 98, 97, 100>>                              \* {bad
PingJson ==
    <<123, 34, 116, 121, 112, 101, 34, 58, 34, 112, 105, 110, 103, 34, 125>>
        \* {"type":"ping"}
Noise == TextJson(<<65>>) \o <<10>> \o Frame(BadJson) \o Frame(PingJson)

\* a done line that lacks its newline
OpenDone == DataPrefix \o DoneJson

\* the byte fragments reader.read() can resolve with
Fragments ==
    { Frame(TextJson(<<65>>)) \o Frame(TextJson(<<66>>)),
      Noise \o OpenDone,
      Frame(DoneJson) \o Frame(TextJson(<<65>>)),
      Frame(ToolStartJson),
      Frame(ToolStartJson) \o Frame(ToolEndJson),
      Frame(ChartJson(<<83>>)) \o Frame(ChartJson(<<84>>)),
      Frame(DoneJson),
      Frame(ErrorJson),
      SplitHead,
      SplitTail }

\* line 130 on each of them
FragmentText == [bytes \in Fragments |-> from_utf8_lossy(bytes)]

\* u16 as decimal text, as format!("{}") writes it
RECURSIVE Decimal(_)
Decimal(n) == IF n < 10 THEN <<48 + n>> ELSE Decimal(n \div 10) \o <<48 + (n % 10)>>

\* the Debug text of a rejected promise's JsValue
JsErrors ==
    { <<74, 115, 86, 97, 108, 117, 101, 40, 84, 121, 112, 101, 69, 114, 114, 111,
        114, 58, 32, 70, 97, 105, 108, 101, 100, 32, 116, 111, 32, 102, 101, 116,
        99, 104, 41>> }      \* JsValue(TypeError: Failed to fetch)

\* a non-success status the server can answer with
Statuses == {500}

\* lines 93-106: the Err values send_message can return before the first read
FetchErrors == JsErrors \cup {HttpPrefix \o Decimal(st) : st \in Statuses} \cup {NoBody}

\* lines 111-113: the Err value of a read that rejects
ReadErrors == JsErrors

(***************************************************************************)
(* State.                                                                  *)
(***************************************************************************)
VARIABLES
    messages,          \* line 158
    input,             \* line 159
    loading,           \* line 160
    current_response,  \* line 161
    next_id,           \* line 162
    tool_running,      \* line 163
    pending_charts,    \* line 164
    tasks,             \* the futures of spawn_local (line 208), in spawn order
    net,               \* network results delivered so far (bounded by MaxNet)
    last,              \* whether the last step was a call of do_send
    wire,              \* frame parser alone: the bytes of the body still to come
    sent,              \* frame parser alone: the bytes delivered so far
    fbuffer,           \* frame parser alone: buffer (line 108)
    flines             \* frame parser alone: the lines taken off the buffer so far

signals == <<messages, loading, current_response, next_id, tool_running,
             pending_charts>>
app == <<messages, input, loading, current_response, next_id, tool_running,
         pending_charts, tasks, net, last>>
parser == <<wire, sent, fbuffer, flines>>
vars == <<app, parser>>

Signals ==
    [messages |-> messages, loading |-> loading,
     current_response |-> current_response, next_id |-> next_id,
     tool_running |-> tool_running, pending_charts |-> pending_charts]

\* the signals take the values of record S
Store(S0) ==
    \E S \in {S0} :
    /\ messages' = S.messages
    /\ loading' = S.loading
    /\ current_response' = S.current_response
    /\ next_id' = S.next_id
    /\ tool_running' = S.tool_running
    /\ pending_charts' = S.pending_charts

\* a future of send_message: where it is suspended (pc), the arguments it
\* was called with, its parser buffer (line 108), and the chunks it has
\* handed to on_chunk so far; a future that has returned is dropped with
\* its locals, and keeps only its arguments here
\*   alone: no earlier future was live when this one was spawned
\*   pc: "fetch" awaiting line 93, "read" awaiting line 111, "lines" inside
\*       the loop of line 133, "err" returned Err, "ok" returned Ok after a
\*       done or error chunk, "eof" returned Ok (line 149) without either
\*   a future that returned Ok shows in buffer what its buffer still held
\*   when it was dropped, one that returned Err shows the Err value (reason)
Task(msg, history, alone) ==
    [pc |-> "fetch", message |-> msg, history |-> history, buffer |-> <<>>,
     events |-> <<>>, alone |-> alone]

Returned(task, pc) ==
    [task EXCEPT !.pc = pc, !.buffer = <<>>, !.events = <<>>, !.alone = TRUE]

\* Ok(()) with this left in the buffer
Finished(task, pc, left) == [Returned(task, pc) EXCEPT !.buffer = left]

\* Err(e)
Failed(task, e) ==
    [pc |-> "err", message |-> task.message, history |-> task.history,
     buffer |-> <<>>, events |-> <<>>, alone |-> TRUE, reason |-> e]

\* a done or error chunk is among these
Terminated(events) ==
    \E i \in 1 .. Len(events) : events[i].type \in {"done", "error"}

Live(t) == tasks[t].pc \in {"fetch", "read", "lines"}

NoneLive == \A t \in DOMAIN tasks : ~Live(t)

\* one event-loop turn runs to its next await: nothing else runs while a
\* future is inside the loop of line 133
Idle == \A t \in DOMAIN tasks : tasks[t].pc # "lines"

InitApp ==
    /\ messages = <<>>
    /\ input = <<>>
    /\ loading = FALSE
    /\ current_response = <<>>
    /\ next_id = 0
    /\ tool_running = <<>>
    /\ pending_charts = <<>>
    /\ tasks = <<>>
    /\ net = 0
    /\ last = "init"

InitParser ==
    /\ wire = <<>>
    /\ sent = <<>>
    /\ fbuffer = <<>>
    /\ flines = <<>>

Init == InitApp /\ InitParser

\* lines 379-381: the input box's on:input
SetInput(v) ==
    /\ Idle
    /\ v # input
    /\ input' = v
    /\ last' = "other"
    /\ UNCHANGED <<signals, tasks, net, parser>>

\* lines 182-272: do_send up to spawn_local
DoSend ==
    /\ Idle
    /\ IF rejects(input, loading)
       THEN UNCHANGED <<input, signals, tasks>>
       ELSE /\ input' = <<>>
            /\ Store(accept(Signals, input))
            /\ tasks' = Append(tasks, Task(input, history_of(Signals, input),
                                            NoneLive))
    /\ last' = "do_send"
    /\ UNCHANGED <<net, parser>>

\* lines 93-106 succeed: the response is ok and has a body
FetchOk(t) ==
    /\ Idle
    /\ tasks[t].pc = "fetch"
    /\ tasks' = [tasks EXCEPT ![t].pc = "read"]
    /\ last' = "other"
    /\ UNCHANGED <<input, signals, net, parser>>

\* lines 93-106 fail with e, and lines 258-270 run
FetchFail(t, e) ==
    /\ Idle
    /\ tasks[t].pc = "fetch"
    /\ net < MaxNet
    /\ net' = net + 1
    /\ tasks' = [tasks EXCEPT ![t] = Failed(@, e)]
    /\ Store(on_failure(Signals, e))
    /\ last' = "other"
    /\ UNCHANGED <<input, parser>>

\* lines 111-130: a read resolves with a fragment, which joins the buffer
ReadFragment(t, bytes) ==
    /\ Idle
    /\ tasks[t].pc = "read"
    /\ net < MaxNet
    /\ net' = net + 1
    /\ LET buffer == tasks[t].buffer \o FragmentText[bytes]
       IN  tasks' = [tasks EXCEPT ![t].buffer = buffer,
                                  ![t].pc = IF find_newline(buffer) = <<>>
                                            THEN "read" ELSE "lines"]
    /\ last' = "other"
    /\ UNCHANGED <<input, signals, parser>>

\* lines 111-122 and 149: a read resolves with done, send_message returns Ok
ReadEnd(t) ==
    /\ Idle
    /\ tasks[t].pc = "read"
    /\ tasks' = [tasks EXCEPT ![t] =
           Finished(@, IF Terminated(@.events) THEN "ok" ELSE "eof", @.buffer)]
    /\ Store(at_end(Signals, tasks[t].buffer))
    /\ last' = "other"
    /\ UNCHANGED <<input, net, parser>>

\* lines 111-113 fail with e, and lines 258-270 run
ReadFail(t, e) ==
    /\ Idle
    /\ tasks[t].pc = "read"
    /\ net < MaxNet
    /\ net' = net + 1
    /\ tasks' = [tasks EXCEPT ![t] = Failed(@, e)]
    /\ Store(on_failure(Signals, e))
    /\ last' = "other"
    /\ UNCHANGED <<input, parser>>

\* lines 133-146: one pass of the loop over the complete lines of the buffer
Line(t) ==
    /\ tasks[t].pc = "lines"
    /\ \E cut \in {split_line(tasks[t].buffer, find_newline(tasks[t].buffer)[1])} :
       \E chunk \in {chunk_of_line(cut.line)} :
           /\ IF chunk = NoChunk
              THEN UNCHANGED signals
              ELSE Store(on_chunk(Signals, chunk))
           /\ tasks' = [tasks EXCEPT ![t] =
                  IF is_done(chunk) THEN Finished(@, "ok", cut.rest)
                  ELSE [@ EXCEPT
                          !.buffer = cut.rest,
                          !.events = IF chunk = NoChunk THEN @ ELSE Append(@, chunk),
                          !.pc = IF find_newline(cut.rest) = <<>> THEN "read"
                                 ELSE "lines"]]
           /\ last' = "other"
    /\ UNCHANGED <<input, net, parser>>

Next ==
    \/ \E v \in Inputs : SetInput(v)
    \/ DoSend
    \/ \E t \in DOMAIN tasks : FetchOk(t)
    \/ \E t \in DOMAIN tasks : \E e \in FetchErrors : FetchFail(t, e)
    \/ \E t \in DOMAIN tasks : \E bytes \in Fragments : ReadFragment(t, bytes)
    \/ \E t \in DOMAIN tasks : ReadEnd(t)
    \/ \E t \in DOMAIN tasks : \E e \in ReadErrors : ReadFail(t, e)
    \/ \E t \in DOMAIN tasks : Line(t)

Spec == Init /\ [][Next]_vars

(***************************************************************************)
(* The frame parser of send_message alone (lines 108-147) on one response  *)
(* body, delivered in fragments cut at arbitrary byte offsets.             *)
(***************************************************************************)
\* newline, space, "a", and the two bytes of "é"
WireBytes == {10, 32, 97, 195, 169}

RECURSIVE Bodies(_)
Bodies(n) ==
    IF n = 0 THEN {<<>>}
    ELSE LET shorter == Bodies(n - 1)
         IN  shorter \cup {Append(b, x) : b \in {c \in shorter : Len(c) = n - 1},
                                          x \in WireBytes}

\* lines 133-136: every complete line leaves the buffer
\* [lines |-> the lines in order, rest |-> what stays in the buffer]
RECURSIVE take_lines(_)
take_lines(buffer) ==
    LET pos == find_newline(buffer) IN
    IF pos = <<>> THEN [lines |-> <<>>, rest |-> buffer]
    ELSE LET cut == split_line(buffer, pos[1])
             more == take_lines(cut.rest)
         IN  [lines |-> <<cut.line>> \o more.lines, rest |-> more.rest]

InitFrames ==
    /\ InitApp
    /\ wire \in Bodies(MaxWire)
    /\ sent = <<>>
    /\ fbuffer = <<>>
    /\ flines = <<>>

\* lines 111-146 for a read that resolves with the next n bytes of the body
Deliver(n) ==
    /\ n \in 1 .. Len(wire)
    /\ LET bytes == SubSeq(wire, 1, n)
           got == take_lines(fbuffer \o from_utf8_lossy(bytes))
       IN  /\ wire' = SubSeq(wire, n + 1, Len(wire))
           /\ sent' = sent \o bytes
           /\ fbuffer' = got.rest
           /\ flines' = flines \o got.lines
    /\ UNCHANGED app

NextFrames == \E n \in 1 .. MaxWire : Deliver(n)

SpecFrames == InitFrames /\ [][NextFrames]_vars


(***************************************************************************)
(* Properties.  A step of the loop of line 133 is recognised in its first  *)
(* state: the future is inside the loop ("lines"), and the chunk it hands  *)
(* to on_chunk is the one its next complete line carries.                  *)
(***************************************************************************)
NextChunk(t) ==
    chunk_of_line(split_line(tasks[t].buffer,
                             find_newline(tasks[t].buffer)[1]).line)

\* the next step applies a chunk of this type from the stream of t
Applies(t, type) == tasks[t].pc = "lines" /\ NextChunk(t).type = type

\* this step is send_message of t returning Err (lines 258-270 run)
Fails(t) == tasks[t].pc \in {"fetch", "read"} /\ tasks'[t].pc = "err"

Blank(text) == \A i \in 1 .. Len(text) : text[i] \in WhiteSpace

LastOf(seq) == seq[Len(seq)]

\* what the text and tool_end events of a turn add up to
RECURSIVE TurnText(_)
TurnText(events) ==
    IF events = <<>> THEN <<>>
    ELSE LET e == events[1]
         IN  (CASE e.type = "text" -> e.content
                [] e.type = "tool_end" -> <<10, 10>>
                [] OTHER -> <<>>) \o TurnText(Tail(events))

\* C1: at most one turn is in flight: never two futures of send_message
\* that have not returned.
C1_OneTurnInFlight ==
    Cardinality({t \in DOMAIN tasks : Live(t)}) <= 1

\* C2: a submission made while loading, or with empty or blank input,
\* changes nothing: store, next_id, input, in-flight buffers, requests.
C2_RejectedSubmissionChangesNothing ==
    [][(last' = "do_send" /\ (loading \/ Blank(input)))
         => UNCHANGED <<messages, next_id, input, loading, current_response,
                        pending_charts, tool_running, tasks>>]_vars

\* a submission with a message in the box was made during a turn and dropped
C2_Witness ==
    /\ last = "do_send"
    /\ loading
    /\ ~Blank(input)
    /\ \E t \in DOMAIN tasks : tasks[t].events # <<>>

\* C3: the history of an accepted submission's request is the store as it
\* was before the user message was appended, and does not hold that message.
C3_HistoryBeforeUserMessage ==
    [][(last' = "do_send" /\ ~(loading \/ Blank(input)))
         => /\ Len(tasks') = Len(tasks) + 1
            /\ LastOf(tasks').history = messages
            /\ LastOf(tasks').message = input
            /\ Len(messages') = Len(messages) + 1
            /\ LastOf(messages').role = User
            /\ LastOf(messages').content = input
            /\ \A i \in 1 .. Len(LastOf(tasks').history) :
                  LastOf(tasks').history[i] # LastOf(messages')]_vars

\* a second submission was accepted: its history holds the first turn
C3_Witness ==
    /\ last = "do_send"
    /\ Len(tasks) = 2
    /\ Len(tasks[2].history) = 2
    /\ Len(messages) = 3

\* C4: the message a done event commits is the concatenation of the text
\* events of that same turn, with "\n\n" once per tool_end of that turn.
C4_ContentIsTurnText ==
    [][\A t \in DOMAIN tasks :
          Applies(t, "done")
            => LastOf(messages').content = TurnText(tasks[t].events)]_vars

\* the stream of C5, before its done
C5Stream ==
    << [type |-> "tool_start", name |-> <<116>>],
       [type |-> "tool_end", name |-> <<116>>],
       [type |-> "text", content |-> <<65>>],
       [type |-> "text", content |-> <<66>>] >>

\* C5 as claimed: tool_start, tool_end, text "A", text "B", done commits
\* exactly "AB".
C5_NoSeparatorBeforeFirstText ==
    [][\A t \in DOMAIN tasks :
          (Applies(t, "done") /\ tasks[t].events = C5Stream)
            => LastOf(messages').content = <<65, 66>>]_vars

\* C5 as amended: a turn submitted while no earlier request is still in
\* flight, whose stream is tool_start, tool_end, text "A", text "B", done,
\* commits exactly "\n\nAB": the separator of the tool_end stands in front
\* of the first text.
C5_SeparatorBeforeFirstText ==
    [][\A t \in DOMAIN tasks :
          (Applies(t, "done") /\ tasks[t].events = C5Stream /\ tasks[t].alone)
            => /\ LastOf(messages').role = Assistant
               /\ LastOf(messages').content = <<10, 10, 65, 66>>]_vars

\* the four events of C5 have been applied and its done is next
C5_Witness ==
    \E t \in DOMAIN tasks :
        /\ Applies(t, "done")
        /\ tasks[t].events = C5Stream
        /\ tasks[t].alone
        /\ current_response = <<10, 10, 65, 66>>

\* C6: an error event with message m appends an assistant message
\* "Error: " m with no charts, and loading becomes false.
C6_ErrorEventCommitsMessage ==
    [][\A t \in DOMAIN tasks :
          Applies(t, "error")
            => /\ messages' = Append(messages,
                     [id |-> next_id, role |-> Assistant,
                      content |-> <<69, 114, 114, 111, 114, 58, 32>>
                                     \o NextChunk(t).message,
                      charts |-> <<>>])
               /\ loading' = FALSE]_vars

\* the error event "rate limited" was applied after some text and a chart
C6_Witness ==
    /\ ~loading
    /\ messages # <<>>
    /\ LastOf(messages).content =
          <<69, 114, 114, 111, 114, 58, 32>> \o RateLimited
    /\ \E t \in DOMAIN tasks :
          /\ tasks[t].events # <<>>
          /\ LastOf(tasks[t].events) = [type |-> "error", message |-> RateLimited]
    /\ pending_charts # <<>>

\* C7: a failing turn (error event or transport failure) resets the
\* in-flight state in the step that commits the error message.
C7_FailureResetsTurnState ==
    [][\A t \in DOMAIN tasks :
          (Applies(t, "error") \/ Fails(t))
            => /\ current_response' = <<>>
               /\ pending_charts' = <<>>
               /\ tool_running' = <<>>]_vars

\* C8: a done event appends one assistant message with the buffer and the
\* pending charts, and resets the whole turn state.
C8_DoneCommitsAndResets ==
    [][\A t \in DOMAIN tasks :
          Applies(t, "done")
            => /\ messages' = Append(messages,
                     [id |-> next_id, role |-> Assistant,
                      content |-> current_response, charts |-> pending_charts])
               /\ current_response' = <<>>
               /\ pending_charts' = <<>>
               /\ tool_running' = <<>>
               /\ loading' = FALSE]_vars

\* C9: the ids of the store are 0, 1, 2, ... in store order (so strictly
\* increasing and never reused), and the next id is the first unused one.
C9_IdsConsecutive ==
    /\ \A i \in 1 .. Len(messages) : messages[i].id = i - 1
    /\ next_id = Len(messages)

\* three messages are stored, the last by a done, and a submission was dropped
C9_Witness ==
    /\ Len(messages) >= 3
    /\ last = "do_send"
    /\ Blank(input)
    /\ \E i \in 1 .. Len(messages) :
          messages[i].role = Assistant /\ messages[i].charts # <<>>

\* C10: however the body is cut into fragments, the lines taken off the
\* buffer are those of the body delivered in one fragment.
C10_ChunkingInvariance ==
    flines = take_lines(from_utf8_lossy(sent)).lines

\* the trimmed line the loop of line 133 takes next off the buffer of t
NextLine(t) ==
    split_line(tasks[t].buffer, find_newline(tasks[t].buffer)[1]).line

\* what stays in the buffer of t behind that line
NextRest(t) ==
    split_line(tasks[t].buffer, find_newline(tasks[t].buffer)[1]).rest

\* an error chunk of the stream of t has been applied
HadError(t) ==
    \E i \in 1 .. Len(tasks[t].events) : tasks[t].events[i].type = "error"

\* this step is a submission with a message in the box while not loading
Submits == last' = "do_send" /\ ~loading /\ ~Blank(input)

\* this step appends the user message and spawns the request
Accepted ==
    /\ messages' = Append(messages, [id |-> next_id, role |-> User,
                                     content |-> input, charts |-> <<>>])
    /\ loading'
    /\ Len(tasks') = Len(tasks) + 1
    /\ LastOf(tasks').pc = "fetch"
    /\ LastOf(tasks').message = input

Http500 == <<72, 84, 84, 80, 32, 53, 48, 48>>        \* HTTP 500
NoBodyReason == <<110, 111, 32, 98, 111, 100, 121>>  \* no body

\* C11: a transport failure (fetch error, non-success status, missing body,
\* read error, also after events of the stream were applied) appends one
\* assistant message "Error: " and the reason, and loading becomes false.
C11_TransportFailureCommitsMessage ==
    [][\A t \in DOMAIN tasks :
          Fails(t)
            => /\ tasks'[t].reason \in
                    IF tasks[t].pc = "fetch"
                    THEN JsErrors \cup {Http500, NoBodyReason}
                    ELSE JsErrors
               /\ messages' = Append(messages,
                     [id |-> next_id, role |-> Assistant,
                      content |-> <<69, 114, 114, 111, 114, 58, 32>>
                                     \o tasks'[t].reason,
                      charts |-> <<>>])
               /\ loading' = FALSE]_vars

\* a request was answered with status 500, and in the next turn a read failed
\* after text of the stream was applied
C11_Witness ==
    /\ Len(tasks) = 2
    /\ tasks[1].pc = "err" /\ tasks[1].reason = Http500
    /\ tasks[2].pc = "err" /\ tasks[2].reason \in JsErrors
    /\ current_response = <<65, 66>>
    /\ Len(messages) = 4
    /\ messages[2].content = <<69, 114, 114, 111, 114, 58, 32>> \o Http500
    /\ LastOf(messages).content =
          <<69, 114, 114, 111, 114, 58, 32>> \o tasks[2].reason
    /\ ~loading

\* C12: a failure (error event or transport failure) leaves loading false,
\* loading stays false until a submission, and a submission with a message
\* in the box made while not loading is accepted: it appends its user
\* message and issues its request.
C12_FailedTurnLeavesInputUsable ==
    [][/\ \A t \in DOMAIN tasks :
             (Applies(t, "error") \/ Fails(t)) => loading' = FALSE
       /\ (~loading /\ loading') => last' = "do_send"
       /\ Submits => Accepted]_vars

\* a turn failed at transport level, the next by an error event, and a third
\* submission has just been accepted
C12_Witness ==
    /\ last = "do_send"
    /\ Len(tasks) = 3
    /\ tasks[1].pc = "err"
    /\ tasks[2].pc = "read" /\ HadError(2)
    /\ tasks[3].pc = "fetch"
    /\ loading
    /\ Len(messages) = 5
    /\ LastOf(messages).role = User

\* C13: once the stream of a turn has ended without a done or error event,
\* loading is true in every later state (so no later submission is accepted
\* and the turn never finalizes).
C13_EndWithoutTerminalStaysLoading ==
    (\E t \in DOMAIN tasks : tasks[t].pc = "eof") => loading

\* C14: whenever loading is false, no reader of an earlier turn is still
\* being read.
C14_ReaderReleasedWhenIdle ==
    ~loading => \A t \in DOMAIN tasks : tasks[t].pc \notin {"read", "lines"}

\* a line without the prefix "data: "
NoPrefix(line) ==
    Len(line) < 6 \/ SubSeq(line, 1, 6) # <<100, 97, 116, 97, 58, 32>>

\* data lines whose remainder is not JSON (an unquoted word; two objects in
\* a row) or names a type that does not exist
BadDataLines ==
    { DataPrefix \o BadJson,
      DataPrefix \o DoneJson \o DataPrefix \o DoneJson,
      DataPrefix \o PingJson }

\* C15: a line without the prefix "data: ", or whose remainder is not valid
\* JSON, or whose type is unknown, changes no signal and hands nothing to
\* on_chunk, and the loop goes on with what follows the line.
C15_IgnoredLineChangesNothing ==
    [][\A t \in DOMAIN tasks :
          (tasks[t].pc = "lines"
             /\ (NoPrefix(NextLine(t)) \/ NextLine(t) \in BadDataLines))
            => /\ UNCHANGED signals
               /\ tasks'[t].events = tasks[t].events
               /\ tasks'[t].buffer = NextRest(t)
               /\ tasks'[t].pc \in {"read", "lines"}]_vars

\* the three ignored lines of Noise have been passed: nothing was applied,
\* and the unterminated line behind them waits in the buffer
C15_Witness ==
    /\ Len(tasks) = 1
    /\ tasks[1].pc = "read"
    /\ tasks[1].buffer = OpenDone
    /\ tasks[1].events = <<>>
    /\ loading
    /\ current_response = <<>>
    /\ Len(messages) = 1

\* C16: the store is append-only: every step leaves the messages it held
\* in place and unchanged, as a prefix of the new list.
C16_StoreAppendOnly ==
    [][/\ Len(messages') >= Len(messages)
       /\ SubSeq(messages', 1, Len(messages)) = messages]_vars

\* the store holds two turns, one ended by an error message and one by done
C16_Witness ==
    /\ Len(messages) >= 4
    /\ \E i \in 1 .. Len(messages) :
          messages[i].content = <<69, 114, 114, 111, 114, 58, 32>> \o RateLimited
    /\ \E i \in 1 .. Len(messages) :
          messages[i].role = Assistant /\ messages[i].content = <<65, 66>>

\* C17: at end of data, what the buffer holds without a newline is not
\* taken as a line: the step changes no signal, whatever the content.
C17_UnterminatedTailDiscarded ==
    [][\A t \in DOMAIN tasks :
          (tasks[t].pc = "read" /\ tasks[t].buffer # <<>>
             /\ tasks'[t].pc \in {"ok", "eof"})
            => UNCHANGED signals]_vars

\* the stream ended behind a done line that lacks its newline: no assistant
\* message was committed
C17_Witness ==
    /\ Len(tasks) = 1
    /\ tasks[1].pc = "eof"
    /\ tasks[1].buffer = OpenDone
    /\ Len(messages) = 1
    /\ loading

\* C18: after an error event of a stream, no later event of that stream
\* and no read failure of it changes the store or the in-flight state.
C18_ErrorIsTerminal ==
    [][\A t \in DOMAIN tasks :
          (HadError(t) /\ (tasks[t].pc = "lines" \/ Fails(t)))
            => UNCHANGED signals]_vars

\* C19: a done event is terminal: the step that applies it makes
\* send_message return, with the rest of the buffer undecoded, and a future
\* that has returned never takes another step (no read, no line).
C19_DoneIsTerminal ==
    [][\A t \in DOMAIN tasks :
          /\ Applies(t, "done")
               => (tasks'[t].pc = "ok" /\ tasks'[t].buffer = NextRest(t))
          /\ tasks[t].pc = "ok" => tasks'[t] = tasks[t]]_vars

\* a done was applied with a complete text line behind it in the buffer:
\* the text never reached the signals
C19_Witness ==
    /\ Len(tasks) = 1
    /\ tasks[1].pc = "ok"
    /\ tasks[1].buffer = Frame(TextJson(<<65>>))
    /\ Len(messages) = 2
    /\ LastOf(messages).role = Assistant
    /\ LastOf(messages).content = <<>>
    /\ current_response = <<>>
    /\ ~loading

\* C20: the store alternates User, Assistant, User, Assistant, ... from a
\* User message on.
C20_StoreAlternates ==
    \A i \in 1 .. Len(messages) :
        messages[i].role = IF i % 2 = 1 THEN User ELSE Assistant

=============================================================================
